---- MODULE Spec2Model ----
(***************************************************************************)
(* Model of smcpp/estimation_tools.py: the run-length codec                *)
(* (compress_repeated_obs, decompress_polymorphic_spans, recode_nonseg),   *)
(* the span splitter (break_long_spans), the piece parser (extract_pieces),*)
(* the time grid builder (construct_time_points) and the hidden-state      *)
(* calibrator (balance_hidden_states).                                     *)
(*                                                                         *)
(* An observation record is a sequence <<span, a_1, b_1, n_1, ...>> with   *)
(* one (dist_allele, undist_derived_count, undist_total_count) triple per  *)
(* population.  numpy columns are 0-based; Col(row, c) reads column c.     *)
(***************************************************************************)
EXTENDS Integers, Sequences, FiniteSets, TLC

VARIABLES
    pc,              \* position of the modelled call: the function's name before it runs
    dataset,         \* argument of compress_repeated_obs / decompress_polymorphic_spans
    newob,           \* value returned by the codec function
    contig,          \* the Contig handed to recode_nonseg / break_long_spans
    contig0,         \* the Contig's data matrix as it was before the call
    cutoff,          \* recode_nonseg's cutoff: <<>> is None, <<c>> is the integer c
    log,             \* records emitted on the module's logger
    span_cutoff,     \* break_long_spans' span_cutoff
    contig_list,     \* value returned by break_long_spans
    obs_attributes,  \* break_long_spans' per-sub-contig attributes
    piece_str,       \* argument of extract_pieces, a sequence of characters
    tokens,          \* the structured pieces piece_str was written from
    pieces,          \* value returned by extract_pieces / argument of construct_time_points
    t1, tK, offset,  \* arguments of construct_time_points
    time_points,     \* value returned by construct_time_points
    raised,          \* exception the call ended with, "" when it returned
    M0,              \* balance_hidden_states' argument M as the caller passed it
    M,               \* balance_hidden_states' local M
    model,           \* the demographic model: [rate, N0]
    ret,             \* balance_hidden_states' list of break points
    m,               \* balance_hidden_states' loop variable
    a, b             \* the bracket of the current root search

vars == <<pc, dataset, newob, contig, contig0, cutoff, log, span_cutoff,
          contig_list, obs_attributes, piece_str, tokens, pieces, t1, tK,
          offset, time_points, raised, M0, M, model, ret, m, a, b>>

codecVars == <<dataset, newob>>
contigVars == <<contig, contig0, cutoff, log, span_cutoff, contig_list, obs_attributes>>
pieceVars == <<piece_str, tokens>>
timeVars == <<t1, tK, offset, time_points>>
bhsVars == <<M0, M, model, ret, m, a, b>>

-----------------------------------------------------------------------------
(* Bounds of the model *)

MaxLen == 3          \* records in a codec dataset
MaxSpan == 2         \* span of a codec record
MaxContigLen == 3    \* records in a contig's data matrix
MaxCutoff == 2       \* caller-supplied cutoffs range over 1..MaxCutoff
MaxTokens == 2       \* tokens in a piece specification
MaxCount == 2        \* count of a count*span token
MaxPieces == 2       \* entries of a pieces sequence given to construct_time_points
MaxPiece == 2        \* value of such an entry
MaxRatio == 2        \* numerator and denominator of the grid's common ratio
MaxScale == 2        \* scale of the grid's end points
MaxOffset == 2       \* offset
MaxM == 6            \* number of hidden states asked for
MaxRate == 3         \* rate parameter of the model
MaxN0 == 2           \* the model's N0

-----------------------------------------------------------------------------
(* numpy helpers *)

Col(row, c) == row[c + 1]

\* the columns c0, c0+3, c0+6, ... of a row: the slice c0::3
Slice3(row, c0) == {c \in 0..(Len(row) - 1) : c >= c0 /\ (c - c0) % 3 = 0}

\* row[1:]
NonSpan(row) == SubSeq(row, 2, Len(row))

\* the indices at which the boolean array mask is true, ascending: np.where(mask)[0]
Where(mask) == SelectSeq([i \in 1..Len(mask) |-> i], LAMBDA i : mask[i])

RECURSIVE SumSpans(_, _, _)
\* obs[lo:hi, 0].sum() over the 1-based rows lo..hi
SumSpans(d, lo, hi) == IF hi < lo THEN 0 ELSE Col(d[hi], 0) + SumSpans(d, lo, hi - 1)

RECURSIVE Concat(_)
Concat(ss) == IF ss = <<>> THEN <<>> ELSE Head(ss) \o Concat(Tail(ss))

\* np.tile(row, (k, 1))
Tile(row, k) == [i \in 1..k |-> row]

-----------------------------------------------------------------------------
(* compress_repeated_obs *)

nonce_bad(row) == [c \in 1..Len(row) |-> IF c = 1 THEN 1 ELSE 0]

\* nonce = np.zeros_like(dataset[0]); nonce[:2] = [1, -999]
nonce(row) == [c \in 1..Len(row) |-> IF c = 1 THEN 1 ELSE IF c = 2 THEN -999 ELSE 0]

compress_repeated_obs(ds) ==
    LET padded == <<nonce(ds[1])>> \o ds \o <<nonce(ds[1])>>
        nonreps == [i \in 1..(Len(padded) - 1) |-> NonSpan(padded[i + 1]) # NonSpan(padded[i])]
        idx == Where(nonreps)
        rows == [k \in 1..Len(idx) |-> padded[idx[k] + 1]]
        csw == [k \in 1..Len(idx) |-> SumSpans(padded, 1, idx[k])]
    IN  [k \in 1..(Len(idx) - 1) |-> [rows[k] EXCEPT ![1] = csw[k + 1] - csw[k]]]

-----------------------------------------------------------------------------
(* decompress_polymorphic_spans *)

miss_row(row) ==
    /\ \A c \in Slice3(row, 1) : Col(row, c) = -1
    /\ \A c \in Slice3(row, 3) : Col(row, c) = 0

nonseg_row_bad(row) ==
    \/ \A c \in Slice3(row, 2) : Col(row, c) = Col(row, c + 1)
    \/ \A c \in Slice3(row, 2) : Col(row, c) = 0

nonseg_row(row) ==
    /\ \A c \in Slice3(row, 1) : Col(row, c) = 0
    /\ \/ \A c \in Slice3(row, 2) : Col(row, c) = Col(row, c + 1)
       \/ \A c \in Slice3(row, 2) : Col(row, c) = 0

\* psp = np.where((dataset[:, 0] > 1) & (~nonseg) & (~miss))[0]
polymorphic_spans(ds) ==
    Where([i \in 1..Len(ds) |-> Col(ds[i], 0) > 1 /\ ~nonseg_row(ds[i]) /\ ~miss_row(ds[i])])

RECURSIVE decompress_loop(_, _, _, _, _)
\* the loop over psp: acc is ret, last is the (0-based) start of the rows not yet copied
decompress_loop(ds, psp, k, acc, last) ==
    IF k > Len(psp)
    THEN acc \o SubSeq(ds, last + 1, Len(ds))
    ELSE LET i == psp[k] - 1
             row == ds[i + 1]
         IN  decompress_loop(ds, psp, k + 1,
                 acc \o SubSeq(ds, last + 1, i) \o Tile(<<1>> \o NonSpan(row), Col(row, 0)),
                 i + 1)

decompress_polymorphic_spans(ds) ==
    LET psp == polymorphic_spans(ds)
    IN  IF Len(psp) = 0 THEN ds ELSE decompress_loop(ds, psp, 1, <<>>, 0)

-----------------------------------------------------------------------------
(* Values of the variables a specification does not use *)

CodecIdle == dataset = <<>> /\ newob = <<>>
ContigIdle ==
    /\ contig = <<>> /\ contig0 = <<>> /\ cutoff = <<>> /\ log = <<>>
    /\ span_cutoff = 0 /\ contig_list = <<>> /\ obs_attributes = <<>>
PieceIdle == piece_str = <<>> /\ tokens = <<>>
TimeIdle == t1 = 0 /\ tK = 0 /\ offset = 0 /\ time_points = <<>>
BhsIdle ==
    /\ M0 = 0 /\ M = 0 /\ model = <<>> /\ ret = <<>> /\ m = 0
    /\ a = <<0, 1>> /\ b = <<0, 1>>

-----------------------------------------------------------------------------
(* Observation records the specifications draw from *)

\* (dist_allele, undist_derived_count, undist_total_count) of one population
ObsTriples ==
    {<<-1, 0, 0>>, <<0, 0, 0>>, <<0, 2, 2>>, <<0, 1, 2>>, <<1, 0, 1>>, <<2, 2, 2>>}

\* the triples two-population records are built from
PairTriples == {<<-1, 0, 0>>, <<0, 0, 2>>, <<0, 2, 2>>}

Fields(P) == IF P = 1 THEN ObsTriples ELSE {x \o y : x \in PairTriples, y \in PairTriples}

Rows(P, spans) == {<<s>> \o f : s \in spans, f \in Fields(P)}

\* the non-empty data matrices of at most n rows
Matrices(rows, n) == UNION {[1..k -> rows] : k \in 1..n}

CodecDatasets ==
    Matrices(Rows(1, 1..MaxSpan), MaxLen) \cup Matrices(Rows(2, 1..MaxSpan), MaxLen - 1)

-----------------------------------------------------------------------------
(* The codec: one call of compress_repeated_obs or decompress_polymorphic_spans *)

InitCodec ==
    /\ pc = "codec"
    /\ dataset \in CodecDatasets
    /\ newob = <<>>
    /\ raised = ""
    /\ pieces = <<>>
    /\ ContigIdle /\ PieceIdle /\ TimeIdle /\ BhsIdle

Compress ==
    /\ pc = "codec"
    /\ newob' = compress_repeated_obs(dataset)
    /\ pc' = "compressed"
    /\ UNCHANGED <<dataset, contigVars, pieceVars, pieces, timeVars, raised, bhsVars>>

Decompress ==
    /\ pc = "codec"
    /\ newob' = decompress_polymorphic_spans(dataset)
    /\ pc' = "decompressed"
    /\ UNCHANGED <<dataset, contigVars, pieceVars, pieces, timeVars, raised, bhsVars>>

NextCodec == Compress \/ Decompress

SpecCodec == InitCodec /\ [][NextCodec]_vars

-----------------------------------------------------------------------------
(* Vocabulary of the data model, by population *)

Pops(row) == 1..((Len(row) - 1) \div 3)
SpanOf(row) == row[1]
DistAllele(row, p) == row[3 * p - 1]
UndistDerived(row, p) == row[3 * p]
UndistTotal(row, p) == row[3 * p + 1]

TotalSpan(d) == SumSpans(d, 1, Len(d))

WhollyMissing(row) ==
    \A p \in Pops(row) : DistAllele(row, p) = -1 /\ UndistTotal(row, p) = 0

RECURSIVE RunMerge(_)
\* one record per maximal run of records with identical non-span fields
RunMerge(d) ==
    IF Len(d) <= 1 THEN d
    ELSE LET front == RunMerge(SubSeq(d, 1, Len(d) - 1))
             lastrow == d[Len(d)]
             prev == front[Len(front)]
         IN  IF NonSpan(prev) = NonSpan(lastrow)
             THEN [front EXCEPT ![Len(front)] = <<SpanOf(prev) + SpanOf(lastrow)>> \o NonSpan(prev)]
             ELSE Append(front, lastrow)

\* C1: compress_repeated_obs returns one record per maximal run of records
\* with identical non-span fields, in order, carrying those fields and the
\* sum of the run's spans; total span is kept and no two adjacent output
\* records have identical non-span fields.
C1_CompressMergesRuns ==
    pc = "compressed" =>
        /\ newob = RunMerge(dataset)
        /\ TotalSpan(newob) = TotalSpan(dataset)
        /\ \A i \in 1..(Len(newob) - 1) : NonSpan(newob[i]) # NonSpan(newob[i + 1])
        /\ dataset = <<<<1, 0, 0, 0>>, <<1, 0, 0, 0>>, <<1, 1, 0, 1>>>>
              => newob = <<<<2, 0, 0, 0>>, <<1, 1, 0, 1>>>>

\* C1, reached: the three-record scenario is compressed to two records
C1_Witness ==
    /\ pc = "compressed"
    /\ dataset = <<<<1, 0, 0, 0>>, <<1, 0, 0, 0>>, <<1, 1, 0, 1>>>>
    /\ newob = <<<<2, 0, 0, 0>>, <<1, 1, 0, 1>>>>

\* each record i with must[i] becomes span-many copies of span 1, the others are kept
ExpandWhere(d, must) ==
    Concat([i \in 1..Len(d) |->
        IF must[i] THEN Tile(<<1>> \o NonSpan(d[i]), SpanOf(d[i])) ELSE <<d[i]>>])

\* the records C4 says are expanded
C4_ClaimedPolymorphic(row) ==
    /\ SpanOf(row) > 1
    /\ ~WhollyMissing(row)
    /\ ~(\/ \A p \in Pops(row) : UndistDerived(row, p) = UndistTotal(row, p)
         \/ \A p \in Pops(row) : UndistDerived(row, p) = 0)

\* the records the code expands: as claimed, except that a record only counts
\* as non-segregating when dist_allele is 0 in every population as well
C4_Polymorphic(row) ==
    /\ SpanOf(row) > 1
    /\ ~WhollyMissing(row)
    /\ ~(/\ \A p \in Pops(row) : DistAllele(row, p) = 0
         /\ \/ \A p \in Pops(row) : UndistDerived(row, p) = UndistTotal(row, p)
            \/ \A p \in Pops(row) : UndistDerived(row, p) = 0)

\* C4 as stated: exactly the records with span > 1 that are neither
\* all-missing nor (derived = total in every population or derived = 0 in
\* every population) are expanded into span-many records of span 1.
C4_AsClaimed ==
    pc = "decompressed" => newob = ExpandWhere(dataset, [i \in 1..Len(dataset) |-> C4_ClaimedPolymorphic(dataset[i])])

\* C4, amended: exactly the records with span > 1 that are neither
\* all-missing nor (dist_allele = 0 in every population and (derived = total
\* in every population or derived = 0 in every population)) are expanded;
\* every other record passes through unchanged and in order, the total span
\* is kept and every output record has span 1 or needed no expansion.
C4_DecompressExpandsPolymorphic ==
    pc = "decompressed" =>
        /\ newob = ExpandWhere(dataset, [i \in 1..Len(dataset) |-> C4_Polymorphic(dataset[i])])
        /\ TotalSpan(newob) = TotalSpan(dataset)
        /\ \A i \in 1..Len(newob) : SpanOf(newob[i]) = 1 \/ ~C4_Polymorphic(newob[i])

\* C4, reached: a long compliant record kept and a long polymorphic record expanded
C4_Witness ==
    /\ pc = "decompressed"
    /\ Len(dataset) = 3
    /\ C4_Polymorphic(dataset[2]) /\ ~C4_Polymorphic(dataset[1]) /\ SpanOf(dataset[1]) > 1
    /\ Len(newob) = 2 + SpanOf(dataset[2])

-----------------------------------------------------------------------------
(* Contigs the specifications draw from *)

ContigTriples == {<<-1, 0, 0>>, <<0, 0, 2>>, <<0, 1, 2>>, <<1, 0, 2>>}

ContigFields(P) ==
    IF P = 1 THEN ContigTriples ELSE {x \o y : x \in PairTriples, y \in PairTriples}

ContigRows(P, spans) == {<<s>> \o f : s \in spans, f \in ContigFields(P)}

\* the distinguished-lineage configurations of one and of two populations
AlleleConfigs(P) == IF P = 1 THEN {<<2>>} ELSE {<<1, 1>>, <<2, 0>>}

Contigs(P, spans, n) ==
    {[data |-> d, pid |-> [p \in 1..P |-> p], fn |-> "contig.smc",
      n |-> [p \in 1..P |-> 2], a |-> al] :
        d \in Matrices(ContigRows(P, spans), n), al \in AlleleConfigs(P)}

-----------------------------------------------------------------------------
(* recode_nonseg *)

DefaultCutoff == 50000

warn_only_bad(c) == FALSE

\* warn_only is set exactly when cutoff is None
warn_only(c) == c = <<>>

effective_cutoff(c) == IF c = <<>> THEN DefaultCutoff ELSE c[1]

\* runs = (d[:, 0] > cutoff) & all(d[:, 1::3] == 0) & all(d[:, 2::3] == 0)
in_run(row, c) ==
    /\ Col(row, 0) > c
    /\ \A k \in Slice3(row, 1) : Col(row, k) = 0
    /\ \A k \in Slice3(row, 2) : Col(row, k) = 0

recode_row_bad(row) ==
    [k \in 1..Len(row) |-> IF (k - 1) \in Slice3(row, 1) THEN -1 ELSE row[k]]

\* d[runs, 1::3] = -1; d[runs, 3::3] = 0
recode_row(row) ==
    [k \in 1..Len(row) |->
        IF (k - 1) \in Slice3(row, 1) THEN -1
        ELSE IF (k - 1) \in Slice3(row, 3) THEN 0
        ELSE row[k]]

RecodeSpans == (1..MaxSpan) \cup {DefaultCutoff, DefaultCutoff + 1}

InitRecode ==
    /\ pc = "recode_nonseg"
    /\ contig \in Contigs(1, RecodeSpans, MaxContigLen - 1)
                  \cup Contigs(2, RecodeSpans, MaxContigLen - 2)
    /\ contig0 = contig.data
    /\ cutoff \in {<<>>} \cup {<<c>> : c \in 1..MaxCutoff}
    /\ log = <<>>
    /\ span_cutoff = 0 /\ contig_list = <<>> /\ obs_attributes = <<>>
    /\ raised = ""
    /\ pieces = <<>>
    /\ CodecIdle /\ PieceIdle /\ TimeIdle /\ BhsIdle

RecodeNonseg ==
    /\ pc = "recode_nonseg"
    /\ LET c == effective_cutoff(cutoff)
           d == contig.data
           runs == [i \in 1..Len(d) |-> in_run(d[i], c)]
           d2 == [i \in 1..Len(d) |-> IF runs[i] THEN recode_row(d[i]) ELSE d[i]]
           spans == [k \in 1..Len(Where(runs)) |-> Col(d[Where(runs)[k]], 0)]
       IN  IF \A i \in 1..Len(d) : ~runs[i]
           THEN UNCHANGED <<contig, log>>
           ELSE IF warn_only(cutoff)
                THEN /\ log' = Append(log, [level |-> "WARNING", txt |-> "",
                                            fn |-> contig.fn, spans |-> spans])
                     /\ UNCHANGED contig
                ELSE /\ contig' = [contig EXCEPT !.data = d2]
                     /\ log' = Append(log, [level |-> "DEBUG",
                                            txt |-> " (converted to missing)",
                                            fn |-> contig.fn, spans |-> spans])
    /\ pc' = "recoded"
    /\ UNCHANGED <<contig0, cutoff, span_cutoff, contig_list, obs_attributes,
                   codecVars, pieceVars, pieces, timeVars, raised, bhsVars>>

NextRecode == RecodeNonseg

SpecRecode == InitRecode /\ [][NextRecode]_vars

\* the records C5 and C6 are about: longer than the cutoff, dist_allele and
\* undist_derived_count 0 in every population
LongHomozygous(row, c) ==
    /\ SpanOf(row) > c
    /\ \A p \in Pops(row) : DistAllele(row, p) = 0 /\ UndistDerived(row, p) = 0

\* C5 as stated: with a caller-supplied cutoff every matching record is
\* rewritten, in every population, to dist_allele = -1, undist_derived_count
\* = -1, undist_total_count = 0; all else is unchanged.
C5_AsClaimed ==
    (pc = "recoded" /\ cutoff # <<>>) =>
        /\ Len(contig.data) = Len(contig0)
        /\ \A i \in 1..Len(contig0) :
              IF LongHomozygous(contig0[i], cutoff[1])
              THEN /\ SpanOf(contig.data[i]) = SpanOf(contig0[i])
                   /\ \A p \in Pops(contig0[i]) :
                         /\ DistAllele(contig.data[i], p) = -1
                         /\ UndistDerived(contig.data[i], p) = -1
                         /\ UndistTotal(contig.data[i], p) = 0
              ELSE contig.data[i] = contig0[i]

\* C5, amended: with a caller-supplied cutoff every matching record is
\* rewritten, in every population, to dist_allele = -1 and
\* undist_total_count = 0 while undist_derived_count keeps its value 0 (the
\* record is then wholly missing as the code tests it); every other record,
\* and every span, is unchanged.
C5_RecodeToMissing ==
    (pc = "recoded" /\ cutoff # <<>>) =>
        /\ Len(contig.data) = Len(contig0)
        /\ \A i \in 1..Len(contig0) :
              IF LongHomozygous(contig0[i], cutoff[1])
              THEN /\ SpanOf(contig.data[i]) = SpanOf(contig0[i])
                   /\ \A p \in Pops(contig0[i]) :
                         /\ DistAllele(contig.data[i], p) = -1
                         /\ UndistDerived(contig.data[i], p) = 0
                         /\ UndistTotal(contig.data[i], p) = 0
                   /\ WhollyMissing(contig.data[i])
              ELSE contig.data[i] = contig0[i]

\* C5, reached: a matching record recoded beside a record left alone
C5_Witness ==
    /\ pc = "recoded" /\ cutoff # <<>>
    /\ Len(contig0) = 2
    /\ LongHomozygous(contig0[1], cutoff[1])
    /\ ~LongHomozygous(contig0[2], cutoff[1])
    /\ contig.data # contig0

\* C6: with the cutoff defaulted (None, falling back to 50000) the data
\* matrix after the call equals the data matrix before it, even when it has
\* matching long homozygous runs; the only effect is a warning-level log.
C6_DefaultCutoffWarnsOnly ==
    (pc = "recoded" /\ cutoff = <<>>) =>
        /\ contig.data = contig0
        /\ \A k \in 1..Len(log) : log[k].level = "WARNING"
        /\ (Len(log) = 1) <=> (\E i \in 1..Len(contig0) : LongHomozygous(contig0[i], DefaultCutoff))
        /\ Len(log) <= 1

\* C6, reached: a matching long run met with the cutoff defaulted, and one warning logged
C6_Witness ==
    /\ pc = "recoded" /\ cutoff = <<>>
    /\ \E i \in 1..Len(contig0) : LongHomozygous(contig0[i], DefaultCutoff)
    /\ Len(log) = 1 /\ log[1].level = "WARNING"

-----------------------------------------------------------------------------
(* break_long_spans *)

\* miss = np.zeros_like(obs[0]); miss[0] = 1; miss[1::3] = -1
miss_marker(row) ==
    [k \in 1..Len(row) |->
        IF k = 1 THEN 1 ELSE IF (k - 1) \in Slice3(row, 1) THEN -1 ELSE 0]

is_long_span_bad(row, sc) ==
    /\ Col(row, 0) > sc
    /\ \A k \in Slice3(row, 1) : Col(row, k) = -1
    /\ \A k \in Slice3(row, 3) : Col(row, k) = 0

\* (obs[:, 0] >= span_cutoff) & all(obs[:, 1::3] == -1) & all(obs[:, 3::3] == 0)
is_long_span(row, sc) ==
    /\ Col(row, 0) >= sc
    /\ \A k \in Slice3(row, 1) : Col(row, k) = -1
    /\ \A k \in Slice3(row, 3) : Col(row, k) = 0

\* the 0-based row numbers np.where(...)[0] returns
long_spans(obs, sc) ==
    LET w == Where([i \in 1..Len(obs) |-> is_long_span(obs[i], sc)])
    IN  [k \in 1..Len(w) |-> w[k] - 1]

\* positions = np.insert(np.cumsum(obs[:, 0]), 0, 0), read at the 0-based index k
positions(obs, k) == SumSpans(obs, 1, k)

\* a_cols = [1, 4] if contig.a[0] == 1, [1] if contig.a[0] == 2
a_cols(al) == IF al[1] = 1 THEN {1, 4} ELSE {1}

RECURSIVE SumCols(_, _)
SumCols(row, cols) ==
    IF cols = {} THEN 0
    ELSE LET c == CHOOSE x \in cols : TRUE IN Col(row, c) + SumCols(row, cols \ {c})

RECURSIVE nonmissing_sum(_, _, _)
\* s2 = lda[lda.min(axis=1) >= 0].sum() over the rows 1..k of the sub-contig
nonmissing_sum(data, cols, k) ==
    IF k = 0 THEN 0
    ELSE nonmissing_sum(data, cols, k - 1)
         + (IF \A c \in cols : Col(data[k], c) >= 0 THEN SumCols(data[k], cols) ELSE 0)

next_cob_bad(x) == x

\* cob = x + 1
next_cob(x) == x + 1

RECURSIVE split_loop(_, _, _, _, _, _, _)
\* the loop over long_spans.tolist() + [None]; cob and the entries of xs are 0-based
split_loop(c, sc, xs, k, cob, contigs, attrs) ==
    LET obs == c.data
        last == k > Len(xs)
        x == IF last THEN Len(obs) ELSE xs[k]
        sub == [data |-> <<miss_marker(obs[1])>> \o SubSeq(obs, cob + 1, x),
                pid |-> c.pid, fn |-> c.fn, n |-> c.n, a |-> c.a]
        l == SumSpans(sub.data, 1, Len(sub.data))
        s2 == nonmissing_sum(sub.data, a_cols(c.a), Len(sub.data))
        attr == <<positions(obs, cob), positions(obs, x), l, <<s2, l>>>>
    IN  IF last
        THEN [contig_list |-> Append(contigs, sub), obs_attributes |-> Append(attrs, attr)]
        ELSE split_loop(c, sc, xs, k + 1, next_cob(x), Append(contigs, sub), Append(attrs, attr))

\* the exception the loop body ends with for this contig, "" when there is none
split_error(c) ==
    IF c.a[1] = 1
    THEN IF Len(c.data[1]) <= 4 THEN "IndexError" ELSE ""
    ELSE IF c.a[1] # 2 THEN "AssertionError" ELSE ""

break_long_spans(c, sc) == split_loop(c, sc, long_spans(c.data, sc), 1, 0, <<>>, <<>>)

InitSplit ==
    /\ pc = "break_long_spans"
    /\ contig \in Contigs(1, 1..MaxSpan, MaxContigLen)
                  \cup Contigs(2, 1..MaxSpan, MaxContigLen - 1)
    /\ contig0 = contig.data
    /\ span_cutoff \in 1..(MaxCutoff + 1)
    /\ cutoff = <<>> /\ log = <<>>
    /\ contig_list = <<>> /\ obs_attributes = <<>>
    /\ raised = ""
    /\ pieces = <<>>
    /\ CodecIdle /\ PieceIdle /\ TimeIdle /\ BhsIdle

BreakLongSpans ==
    /\ pc = "break_long_spans"
    /\ LET xs == long_spans(contig.data, span_cutoff)
           out == break_long_spans(contig, span_cutoff)
       IN  /\ log' = IF Len(xs) > 0
                     THEN Append(log, [level |-> "DEBUG", txt |-> "Long missing spans",
                                       fn |-> contig.fn,
                                       spans |-> [k \in 1..Len(xs) |-> Col(contig.data[xs[k] + 1], 0)]])
                     ELSE log
           /\ IF split_error(contig) = ""
              THEN /\ contig_list' = out.contig_list
                   /\ obs_attributes' = out.obs_attributes
                   /\ raised' = ""
              ELSE /\ raised' = split_error(contig)
                   /\ UNCHANGED <<contig_list, obs_attributes>>
    /\ pc' = "split"
    /\ UNCHANGED <<contig, contig0, cutoff, span_cutoff,
                   codecVars, pieceVars, pieces, timeVars, bhsVars>>

NextSplit == BreakLongSpans

SpecSplit == InitSplit /\ [][NextSplit]_vars

\* the records at which C2 and C10 say the contig is cut
LongMissing(row, sc) == SpanOf(row) >= sc /\ WhollyMissing(row)

\* the sub-contigs' data, each without its leading marker, concatenated in order
StrippedConcat(cl) == Concat([k \in 1..Len(cl) |-> Tail(cl[k].data)])

-----------------------------------------------------------------------------
(* extract_pieces: a string is a sequence of one-character strings *)

DigitChars == <<"0", "1", "2", "3", "4", "5", "6", "7", "8", "9">>

IsDigit(ch) == \E d \in 1..10 : DigitChars[d] = ch

DigitValue(ch) == (CHOOSE d \in 1..10 : DigitChars[d] = ch) - 1

RECURSIVE split(_, _)
\* str.split(sep) for a one-character sep
split(str, sep) ==
    IF \A i \in 1..Len(str) : str[i] # sep
    THEN <<str>>
    ELSE LET i == CHOOSE j \in 1..Len(str) :
                      str[j] = sep /\ \A h \in 1..(j - 1) : str[h] # sep
         IN  <<SubSeq(str, 1, i - 1)>> \o split(SubSeq(str, i + 1, Len(str)), sep)

RECURSIVE decimal_value(_)
decimal_value(str) ==
    IF str = <<>> THEN 0
    ELSE 10 * decimal_value(SubSeq(str, 1, Len(str) - 1)) + DigitValue(str[Len(str)])

\* int(str): ok is FALSE where int raises ValueError
int(str) ==
    IF str # <<>> /\ \A i \in 1..Len(str) : IsDigit(str[i])
    THEN [ok |-> TRUE, val |-> decimal_value(str)]
    ELSE [ok |-> FALSE, val |-> 0]

repeat_bad(span, num) == <<span>>

\* [span] * num
repeat(span, num) == [i \in 1..num |-> span]

\* the body of the loop for one piece: the list to add, ok FALSE on ValueError
parse_piece(piece) ==
    LET parts == split(piece, "*")
    IN  IF Len(parts) = 2 /\ int(parts[1]).ok /\ int(parts[2]).ok
        THEN [ok |-> TRUE, add |-> repeat(int(parts[2]).val, int(parts[1]).val)]
        ELSE IF int(piece).ok
             THEN [ok |-> TRUE, add |-> repeat(int(piece).val, 1)]
             ELSE [ok |-> FALSE, add |-> <<>>]

RECURSIVE extract_loop(_, _, _)
extract_loop(ps, k, acc) ==
    IF k > Len(ps) THEN [ok |-> TRUE, pieces |-> acc]
    ELSE IF parse_piece(ps[k]).ok
         THEN extract_loop(ps, k + 1, acc \o parse_piece(ps[k]).add)
         ELSE [ok |-> FALSE, pieces |-> <<>>]

extract_pieces(str) == extract_loop(split(str, "+"), 1, <<>>)

-----------------------------------------------------------------------------
(* Piece specifications the parser is run on *)

PieceSpans == {3, 4, 5, 12}

\* a token: count*span, or a bare span
PieceTokens ==
    {[bare |-> TRUE, count |-> 1, span |-> sp] : sp \in PieceSpans}
    \cup {[bare |-> FALSE, count |-> c, span |-> sp] : c \in 0..MaxCount, sp \in PieceSpans}

RECURSIVE FormatInt(_)
\* the decimal numeral of a natural number
FormatInt(n) ==
    IF n < 10 THEN <<DigitChars[n + 1]>>
    ELSE FormatInt(n \div 10) \o <<DigitChars[(n % 10) + 1]>>

FormatToken(tok) ==
    IF tok.bare THEN FormatInt(tok.span)
    ELSE FormatInt(tok.count) \o <<"*">> \o FormatInt(tok.span)

RECURSIVE FormatSpec(_)
FormatSpec(toks) ==
    IF Len(toks) = 1 THEN FormatToken(toks[1])
    ELSE FormatSpec(SubSeq(toks, 1, Len(toks) - 1)) \o <<"+">> \o FormatToken(toks[Len(toks)])

\* strings that are no piece specification; tokens is <<>> for them
MalformedSpecs ==
    {<<"2", "*", "3", "*", "4">>, <<"3", "+">>, <<"*", "3">>, <<"+">>, <<>>}

InitPieces ==
    /\ pc = "extract_pieces"
    /\ \/ /\ tokens \in UNION {[1..k -> PieceTokens] : k \in 1..MaxTokens}
          /\ piece_str = FormatSpec(tokens)
       \/ /\ tokens = <<>>
          /\ piece_str \in MalformedSpecs
    /\ pieces = <<>>
    /\ raised = ""
    /\ CodecIdle /\ ContigIdle /\ TimeIdle /\ BhsIdle

ExtractPieces ==
    /\ pc = "extract_pieces"
    /\ LET out == extract_pieces(piece_str)
       IN  IF out.ok
           THEN pieces' = out.pieces /\ raised' = ""
           ELSE pieces' = <<>> /\ raised' = "ValueError"
    /\ pc' = "parsed"
    /\ UNCHANGED <<pieceVars, codecVars, contigVars, timeVars, bhsVars>>

NextPieces == ExtractPieces

SpecPieces == InitPieces /\ [][NextPieces]_vars

RECURSIVE SumCounts(_)
SumCounts(toks) == IF toks = <<>> THEN 0 ELSE Head(toks).count + SumCounts(Tail(toks))

\* C7: for a specification of '+'-separated tokens, each count*span or a
\* bare span (count 1), extract_pieces returns, in token order, each token's
\* span repeated count times, so the output has as many entries as the
\* counts sum to; "2*3+5" gives [3,3,5] and "4" gives [4].
C7_ExtractPiecesFlattens ==
    (pc = "parsed" /\ tokens # <<>>) =>
        /\ raised = ""
        /\ pieces = Concat([k \in 1..Len(tokens) |->
                               [i \in 1..tokens[k].count |-> tokens[k].span]])
        /\ Len(pieces) = SumCounts(tokens)
        /\ piece_str = <<"2", "*", "3", "+", "5">> => pieces = <<3, 3, 5>>
        /\ piece_str = <<"4">> => pieces = <<4>>

\* C7, reached: the specification 2*3+5 parsed
C7_Witness ==
    /\ pc = "parsed"
    /\ piece_str = <<"2", "*", "3", "+", "5">>
    /\ pieces = <<3, 3, 5>>

-----------------------------------------------------------------------------
(* construct_time_points.  The grid np.logspace(log10(lo), log10(hi), n + 1) *)
(* is the geometric progression from lo to hi; it is modelled exactly, on    *)
(* the end points whose common ratio is a fraction p/q of small integers.    *)

RECURSIVE Pow(_, _)
Pow(x, n) == IF n = 0 THEN 1 ELSE x * Pow(x, n - 1)

RECURSIVE Gcd(_, _)
Gcd(x, y) == IF y = 0 THEN x ELSE Gcd(y, x % y)

\* the common ratio p/q, in lowest terms, of the n-step progression from lo to hi
common_ratio(lo, hi, n) ==
    CHOOSE r \in (1..MaxRatio) \X (1..MaxRatio) :
        Gcd(r[1], r[2]) = 1 /\ lo * Pow(r[1], n) = hi * Pow(r[2], n)

\* np.logspace(np.log10(lo), np.log10(hi), num): num points, the first lo, the last hi
logspace(lo, hi, num) ==
    LET r == common_ratio(lo, hi, num - 1)
    IN  [k \in 1..num |-> (lo * Pow(r[1], k - 1)) \div Pow(r[2], k - 1)]

\* np.diff
diff(g) == [j \in 1..(Len(g) - 1) |-> g[j + 1] - g[j]]

RECURSIVE SumSeq(_, _, _)
\* s[lo:hi].sum() over the 1-based entries lo..hi
SumSeq(sq, lo, hi) == IF hi < lo THEN 0 ELSE sq[hi] + SumSeq(sq, lo, hi - 1)

RECURSIVE Total(_)
Total(sq) == IF sq = <<>> THEN 0 ELSE Head(sq) + Total(Tail(sq))

Min(x, y) == IF x <= y THEN x ELSE y

advance_bad(count, p) == count + 1

\* count += p
advance(count, p) == count + p

RECURSIVE time_loop(_, _, _, _, _)
\* the loop over enumerate(pieces); a slice past the end of s is cut at the end
time_loop(sdiff, ps, i, count, acc) ==
    IF i > Len(ps) THEN acc
    ELSE time_loop(sdiff, ps, i + 1, advance(count, ps[i]),
                   Append(acc, SumSeq(sdiff, count + 1, Min(count + ps[i], Len(sdiff)))))

construct_time_points(t, tk, ps, off) ==
    LET sdiff == diff(logspace(off + t, tk, Total(ps) + 1))
    IN  <<t>> \o time_loop(sdiff, ps, 1, 0, <<>>)

InitTime ==
    /\ pc = "construct_time_points"
    /\ pieces \in UNION {[1..k -> 1..MaxPiece] : k \in 1..MaxPieces}
    /\ offset \in 0..MaxOffset
    /\ \E A \in 1..MaxScale, p \in 1..MaxRatio, q \in 1..MaxRatio :
          /\ t1 = A * Pow(q, Total(pieces)) - offset
          /\ tK = A * Pow(p, Total(pieces))
    /\ t1 >= 1
    /\ time_points = <<>>
    /\ raised = ""
    /\ CodecIdle /\ ContigIdle /\ PieceIdle /\ BhsIdle

\* the function has no check of its arguments and no raise statement
ConstructTimePoints ==
    /\ pc = "construct_time_points"
    /\ time_points' = construct_time_points(t1, tK, pieces, offset)
    /\ raised' = ""
    /\ pc' = "built"
    /\ UNCHANGED <<t1, tK, offset, pieces, codecVars, contigVars, pieceVars, bhsVars>>

NextTime == ConstructTimePoints

SpecTime == InitTime /\ [][NextTime]_vars

\* C8: construct_time_points fails with a domain error, returning no time
\* points, whenever tK <= t1 + offset.
C8_AsClaimed ==
    (pc = "built" /\ tK <= t1 + offset) =>
        (raised = "DomainError" /\ time_points = <<>>)

\* C9: for pieces with all entries >= 1 and sum n, the result has
\* len(pieces)+1 values, the first being t1; value i+1 is the sum of the
\* differences of group i, the groups being consecutive, non-overlapping and
\* of the sizes pieces gives, over the n first-differences of the
\* (n+1)-point grid from t1+offset to tK; so the values after the first sum
\* to tK - t1 - offset.
C9_TimePointsGroupDifferences ==
    pc = "built" =>
        LET grid == logspace(t1 + offset, tK, Total(pieces) + 1)
            upto(i) == Total(SubSeq(pieces, 1, i))
        IN  /\ Len(time_points) = Len(pieces) + 1
            /\ time_points[1] = t1
            /\ grid[1] = t1 + offset /\ grid[Len(grid)] = tK
            /\ \A i \in 1..Len(pieces) :
                  time_points[i + 1] = grid[upto(i) + 1] - grid[upto(i - 1) + 1]
            /\ Total(Tail(time_points)) = tK - t1 - offset

\* C9, reached: a two-group grid with an offset and increasing end points
C9_Witness ==
    /\ pc = "built"
    /\ pieces = <<2, 1>>
    /\ offset = 1
    /\ tK > t1 + offset
    /\ Len(time_points) = 3
    /\ time_points[2] > 0 /\ time_points[3] > 0

-----------------------------------------------------------------------------
(* balance_hidden_states.  A time or probability is a fraction <<num, den>>; *)
(* <<n, 0>> with n > 0 is infinity.                                          *)

Zero == <<0, 1>>
Infinity == <<1, 0>>

IsZero(x) == x[1] = 0 /\ x[2] > 0
IsInfinity(x) == x[1] > 0 /\ x[2] = 0
Less(x, y) == x[1] * y[2] < y[1] * x[2]
EqualFrac(x, y) == x[1] * y[2] = y[1] * x[2]

Sign(v) == IF v > 0 THEN 1 ELSE IF v < 0 THEN -1 ELSE 0

\* exp(-eta.R(t)) for the rate function of the model.  exp(R(t)) is piecewise
\* linear with one knot at t = 1: 1 + rate * t up to the knot and
\* 1 + rate + rate2 * (t - 1) after it, so R is strictly increasing, R(0) = 0
\* and R grows without bound.
exp_neg_R(mdl, t) ==
    IF t[1] <= t[2]
    THEN <<t[2], t[2] + mdl.rate * t[1]>>
    ELSE <<t[2], t[2] * (1 + mdl.rate) + mdl.rate2 * (t[1] - t[2])>>

\* the sign of f(t) = np.exp(-Rt) - 1.0 * (M - m) / M
sign_f(mdl, MM, mm, t) ==
    LET e == exp_neg_R(mdl, t) IN Sign(e[1] * MM - (MM - mm) * e[2])

\* the times a root search can return, in lowest terms
Times ==
    {t \in (0..(MaxM * MaxRate * MaxM)) \X (1..(MaxRate * MaxM)) : Gcd(t[1], t[2]) = 1}

\* scipy.optimize.brentq(f, a, b): the zero of f between a and b
brentq(mdl, MM, mm, lo, hi) ==
    CHOOSE t \in Times :
        sign_f(mdl, MM, mm, t) = 0 /\ ~Less(t, lo) /\ ~Less(hi, t)

local_M_bad(Marg) == Marg

\* M -= 1
local_M(Marg) == Marg - 1

\* b = 2 * (b + 1)
grow(x) == <<2 * (x[1] + x[2]), x[2]>>

\* np.array(ret) * 2 * model.N0
generations(mdl, r) == [i \in 1..Len(r) |-> <<r[i][1] * 2 * mdl.N0, r[i][2]>>]

InitBhs ==
    /\ pc = "balance_hidden_states"
    /\ M0 \in 2..MaxM
    /\ model \in [rate : 1..MaxRate, rate2 : 1..MaxRate, N0 : 1..MaxN0]
    /\ M = M0 /\ ret = <<>> /\ m = 0 /\ a = Zero /\ b = Zero
    /\ raised = ""
    /\ pieces = <<>>
    /\ CodecIdle /\ ContigIdle /\ PieceIdle /\ TimeIdle

\* M -= 1; ret = [0.0]; ms = range(1, M)
BhsStart ==
    /\ pc = "balance_hidden_states"
    /\ M' = local_M(M0)
    /\ ret' = <<Zero>>
    /\ m' = 1
    /\ pc' = "for"
    /\ UNCHANGED <<M0, model, a, b, raised, pieces, codecVars, contigVars, pieceVars, timeVars>>

\* for m in ms: a = b = ret[-1]
BhsBracket ==
    /\ pc = "for" /\ m < M
    /\ a' = ret[Len(ret)]
    /\ b' = ret[Len(ret)]
    /\ pc' = "while"
    /\ UNCHANGED <<M0, M, model, ret, m, raised, pieces, codecVars, contigVars, pieceVars, timeVars>>

\* while f(a) * f(b) >= 0: b = 2 * (b + 1)
BhsGrow ==
    /\ pc = "while"
    /\ sign_f(model, M, m, a) * sign_f(model, M, m, b) >= 0
    /\ b' = grow(b)
    /\ UNCHANGED <<pc, M0, M, model, ret, m, a, raised, pieces, codecVars, contigVars, pieceVars, timeVars>>

\* res = scipy.optimize.brentq(f, a, b); ret.append(res)
BhsSolve ==
    /\ pc = "while"
    /\ sign_f(model, M, m, a) * sign_f(model, M, m, b) < 0
    /\ ret' = Append(ret, brentq(model, M, m, a, b))
    /\ m' = m + 1
    /\ pc' = "for"
    /\ UNCHANGED <<M0, M, model, a, b, raised, pieces, codecVars, contigVars, pieceVars, timeVars>>

\* ret.append(np.inf); return np.array(ret) * 2 * model.N0
BhsReturn ==
    /\ pc = "for" /\ m >= M
    /\ ret' = generations(model, Append(ret, Infinity))
    /\ pc' = "done"
    /\ UNCHANGED <<M0, M, model, m, a, b, raised, pieces, codecVars, contigVars, pieceVars, timeVars>>

NextBhs == BhsStart \/ BhsBracket \/ BhsGrow \/ BhsSolve \/ BhsReturn

SpecBhs == InitBhs /\ [][NextBhs]_vars

StrictlyIncreasing(r) == \A i \in 1..(Len(r) - 1) : Less(r[i], r[i + 1])

\* a break point in the model's time units
NativeTime(mdl, x) == <<x[1], x[2] * 2 * mdl.N0>>

-----------------------------------------------------------------------------
(* Every function of the module, each run once from its own arguments *)

Init ==
    \/ InitCodec
    \/ InitRecode
    \/ InitSplit
    \/ InitPieces
    \/ InitTime
    \/ InitBhs

Next == NextCodec \/ NextRecode \/ NextSplit \/ NextPieces \/ NextTime \/ NextBhs

Spec == Init /\ [][Next]_vars

====
